---- MODULE Spec2Model ----
(***************************************************************************)
(* A model of the simulation core of open-bomberman: Stage (stage.rs),     *)
(* Flame / Blast / Bomb (bomb.rs), Player (player.rs) and World            *)
(* (world.rs).                                                             *)
(*                                                                         *)
(* Positions are pairs <<x, y>>; position[1] is the tuple field .0 of the  *)
(* source and position[2] is .1.  A 2-D ndarray is a record                *)
(* [shape, cells]; the index [[i, j]] is the pair <<i, j>> with            *)
(* i < shape[1] and j < shape[2], and any other index panics.  A panic     *)
(* (unwrap of a failed conversion, index out of range) ends the program:   *)
(* the operators return it as a flag and the actions latch it in           *)
(* `panicked`.                                                             *)
(***************************************************************************)
EXTENDS Integers, Sequences, FiniteSets, TLC

VARIABLES
  world,          \* the World value the caller holds (WorldImpl's four fields)
  prev,           \* the World value the last World call was made on
  set_tile_calls, \* positions the last World call passed to Stage.set_tile, in order
  stage,          \* the Stage value a caller of the Stage trait holds
  old_stage,      \* the Stage value the last Stage call was made on
  built,          \* the arguments of the Blast::new call that built that Blast;
                  \* for a Bomb, the Bomb as it was created
  blast,          \* the Blast value a caller of the Blast trait holds
  old_blast,      \* the Blast value the last Blast call was made on
  ticks,          \* number of Blast.tick calls made on the Blast since Blast::new
                  \* (of calls made on the value held, for the other traits)
  free_run,       \* TRUE while every one of those calls had every hit_wall flag false
  last_call,      \* the last call: [op, args, result]
  panicked,       \* TRUE once a call has panicked
  flame,          \* the Flame value a caller of the Flame trait holds
  old_flame,      \* the Flame value the last Flame call was made on
  bomb,           \* the Bomb value a caller of the Bomb trait holds
  old_bomb,       \* the Bomb value the last Bomb call was made on
  player,         \* the Player value a caller of Player's methods holds
  old_player      \* the Player value the last Player call was made on

vars == <<world, prev, set_tile_calls, stage, old_stage, built, blast, old_blast, ticks,
          free_run, last_call, panicked, flame, old_flame, bomb, old_bomb, player,
          old_player>>

-----------------------------------------------------------------------------
(* Bounds of the model *)

MaxWalls == 1      \* wall tiles in an initial World stage
MaxBombs == 1      \* bombs in an initial World
MaxLifetime == 2   \* remaining lifetime of a bomb in an initial World
MaxRange == 2      \* bomb / blast range
MaxOverdue == 2    \* ticks a bomb is followed below lifetime 0
MaxDt == 2         \* dt of World.update
MaxBlastTicks == 4 \* Blast.tick calls followed on one Blast
MaxFlameTicks == 4 \* Flame.tick calls followed on one Flame
MaxPlayers == 2    \* players in a World that move_player is called on
MaxMoves == 2      \* move_player / Player calls followed

(* Program constants *)

BlastLifetime == 60
BombLifetime == 300

-----------------------------------------------------------------------------
(* common/direction.rs *)

Direction == {"North", "South", "West", "East",
              "Northwest", "Northeast", "Southwest", "Southeast"}

(* model/stage.rs *)

Tile == {"Ground", "SoftWall", "HardWall"}

is_wall(tile) ==
  CASE tile = "Ground" -> FALSE
    [] tile = "SoftWall" -> TRUE
    [] tile = "HardWall" -> TRUE

\* The index set of an array of the given shape.
Indices(shape) == (0 .. shape[1] - 1) \X (0 .. shape[2] - 1)

\* shape() of the array, converted to i8 (the stages are far below 127).
get_dimensions(tiles) == <<tiles.shape[1], tiles.shape[2]>>

StageImpl_new(tiles) == [dimensions |-> get_dimensions(tiles), tiles |-> tiles]

out_of_bounds(self, position) ==
  /\ position[1] >= 0 /\ position[1] <= self.dimensions[1] - 1
  /\ position[2] >= 0 /\ position[2] <= self.dimensions[2] - 1

\* usize::try_from(..).unwrap() panics on a negative coordinate.
get_usize_position(position) ==
  [panic |-> position[1] < 0 \/ position[2] < 0, val |-> position]

copy(self) == [dimensions |-> self.dimensions, tiles |-> self.tiles]

\* Result<Tile, &str>, or the panic of the unwrap / of the array index.
Ok(tile) == [kind |-> "Ok", tile |-> tile]
Err == [kind |-> "Err", tile |-> "none"]
Panic == [kind |-> "panic", tile |-> "none"]

get_tile(self, position) ==
  IF ~out_of_bounds(self, position)
  THEN LET usize_position == get_usize_position(position)
           index == <<position[2], position[1]>>
       IN  IF usize_position.panic THEN Panic
           ELSE IF index \notin Indices(self.tiles.shape) THEN Panic
           ELSE Ok(self.tiles.cells[index])
  ELSE Err

\* set_tile indexing the array by [[x, y]] instead of [[y, x]].
set_tile_transposed(self, position, tile) ==
  LET usize_position == get_usize_position(position)
      index == <<position[1], position[2]>>
  IN  IF usize_position.panic \/ index \notin Indices(self.tiles.shape)
      THEN [panic |-> TRUE, stage |-> self]
      ELSE [panic |-> FALSE,
            stage |-> [dimensions |-> self.dimensions,
                       tiles |-> [self.tiles EXCEPT !.cells[index] = tile]]]

set_tile(self, position, tile) ==
  LET usize_position == get_usize_position(position)
      index == <<position[2], position[1]>>
  IN  IF usize_position.panic \/ index \notin Indices(self.tiles.shape)
      THEN [panic |-> TRUE, stage |-> self]
      ELSE [panic |-> FALSE,
            stage |-> [dimensions |-> self.dimensions,
                       tiles |-> [self.tiles EXCEPT !.cells[index] = tile]]]

-----------------------------------------------------------------------------
(* model/bomb.rs *)

\* a - b on i8.  Below -128 the subtraction overflows: a build with overflow
\* checks (checked = TRUE) panics, a build without them wraps around.
I8Sub(a, b, checked) ==
  IF a - b < -128
  THEN IF checked THEN [panic |-> TRUE, val |-> a]
       ELSE [panic |-> FALSE, val |-> a - b + 256]
  ELSE [panic |-> FALSE, val |-> a - b]

FlameImpl_new(start, end, direction, spread_range) ==
  [start |-> start, end |-> end, direction |-> direction, spread_range |-> spread_range]

\* Coordinates stay far from the i8 limits (a stage is at most 15 by 9).
Flame_next_position(self) ==
  CASE self.direction = "North" -> <<self.end[1], self.end[2] + 1>>
    [] self.direction = "South" -> <<self.end[1], self.end[2] - 1>>
    [] self.direction = "West" -> <<self.end[1] - 1, self.end[2]>>
    [] self.direction = "East" -> <<self.end[1] + 1, self.end[2]>>
    [] OTHER -> self.end

\* Flame.tick without the freeze: a Flame that hit a wall keeps its range.
Flame_tick_unfrozen(self, hit_wall) ==
  IF hit_wall \/ self.spread_range = 0
  THEN [start |-> self.start, end |-> self.end, direction |-> self.direction,
        spread_range |-> self.spread_range]
  ELSE [start |-> self.start, end |-> Flame_next_position(self),
        direction |-> self.direction, spread_range |-> self.spread_range - 1]

Flame_tick(self, hit_wall) ==
  IF hit_wall
  THEN [start |-> self.start, end |-> self.end, direction |-> self.direction,
        spread_range |-> 0]
  ELSE IF self.spread_range = 0
       THEN [start |-> self.start, end |-> self.end, direction |-> self.direction,
             spread_range |-> 0]
       ELSE [start |-> self.start, end |-> Flame_next_position(self),
             direction |-> self.direction, spread_range |-> self.spread_range - 1]

\* Blast::new that gives a blocked direction a Flame too, frozen at range 0.
BlastImpl_new_frozen(center, range, up_free, down_free, left_free, right_free) ==
  LET up_point == <<center[1], center[2] + 1>>
      down_point == <<center[1], center[2] - 1>>
      left_point == <<center[1] - 1, center[2]>>
      right_point == <<center[1] + 1, center[2]>>
      reach(free) == IF free THEN range ELSE 0
  IN  [center |-> center,
       flames |-> <<FlameImpl_new(up_point, up_point, "North", reach(up_free)),
                    FlameImpl_new(down_point, down_point, "South", reach(down_free)),
                    FlameImpl_new(left_point, left_point, "West", reach(left_free)),
                    FlameImpl_new(right_point, right_point, "East", reach(right_free))>>,
       spread_done |-> FALSE, lifetime |-> BlastLifetime]

\* Blast::new that starts the lifetime one tick too high.
BlastImpl_new_longer(center, range, up_free, down_free, left_free, right_free) ==
  LET up_point == <<center[1], center[2] + 1>>
      down_point == <<center[1], center[2] - 1>>
      left_point == <<center[1] - 1, center[2]>>
      right_point == <<center[1] + 1, center[2]>>
  IN  [center |-> center,
       flames |->
         (IF up_free THEN <<FlameImpl_new(up_point, up_point, "North", range)>> ELSE <<>>)
         \o (IF down_free THEN <<FlameImpl_new(down_point, down_point, "South", range)>>
             ELSE <<>>)
         \o (IF left_free THEN <<FlameImpl_new(left_point, left_point, "West", range)>>
             ELSE <<>>)
         \o (IF right_free THEN <<FlameImpl_new(right_point, right_point, "East", range)>>
             ELSE <<>>),
       spread_done |-> FALSE, lifetime |-> BlastLifetime + 1]

BlastImpl_new(center, range, up_free, down_free, left_free, right_free) ==
  LET up_point == <<center[1], center[2] + 1>>
      down_point == <<center[1], center[2] - 1>>
      left_point == <<center[1] - 1, center[2]>>
      right_point == <<center[1] + 1, center[2]>>
      flames ==
        (IF up_free THEN <<FlameImpl_new(up_point, up_point, "North", range)>> ELSE <<>>)
        \o (IF down_free THEN <<FlameImpl_new(down_point, down_point, "South", range)>>
            ELSE <<>>)
        \o (IF left_free THEN <<FlameImpl_new(left_point, left_point, "West", range)>>
            ELSE <<>>)
        \o (IF right_free THEN <<FlameImpl_new(right_point, right_point, "East", range)>>
            ELSE <<>>)
  IN  [center |-> center, flames |-> flames, spread_done |-> FALSE,
       lifetime |-> BlastLifetime]

\* hit_wall holds one flag per flame, in the order of the flames.
calc_flames(self, hit_wall) ==
  [i \in 1 .. Len(self.flames) |-> Flame_tick(self.flames[i], hit_wall[i])]

\* calc_lifetime counting down whether or not the spread is done.
calc_lifetime_ungated(self, checked) == I8Sub(self.lifetime, 1, checked)

calc_lifetime(self, checked) ==
  IF self.spread_done
  THEN I8Sub(self.lifetime, 1, checked)
  ELSE [panic |-> FALSE, val |-> self.lifetime]

calc_spread_done(self) ==
  IF self.spread_done THEN TRUE
  ELSE \A i \in 1 .. Len(self.flames) : self.flames[i].spread_range = 0

\* The returned Blast carries self.spread_done; new_spread_done is computed
\* and not used.
Blast_tick(self, hit_wall, checked) ==
  LET new_lifetime == calc_lifetime(self, checked)
      new_spread_done == calc_spread_done(self)
      new_flames == calc_flames(self, hit_wall)
  IN  IF new_lifetime.panic THEN [panic |-> TRUE, blast |-> self]
      ELSE [panic |-> FALSE,
            blast |-> [center |-> self.center, flames |-> new_flames,
                       spread_done |-> self.spread_done,
                       lifetime |-> new_lifetime.val]]

next_positions(self) ==
  [i \in 1 .. Len(self.flames) |-> Flame_next_position(self.flames[i])]

BombImpl_new(position, piercing, range) ==
  [position |-> position, lifetime |-> BombLifetime, piercing |-> piercing,
   range |-> range]

\* Bomb.tick with a floor: the lifetime stops at 0.
Bomb_tick_floored(self) ==
  [position |-> self.position,
   lifetime |-> IF self.lifetime <= 0 THEN 0 ELSE self.lifetime - 1,
   piercing |-> self.piercing, range |-> self.range]

\* lifetime is an i16; the model follows a bomb at most MaxOverdue ticks below 0.
Bomb_tick(self) ==
  [position |-> self.position, lifetime |-> self.lifetime - 1,
   piercing |-> self.piercing, range |-> self.range]

can_detonate(self) == self.lifetime = 0

-----------------------------------------------------------------------------
(* model/player.rs *)

\* An f32 of the form s * 0.1 + l * (0.1 / sqrt(2)), relative to the player's
\* starting coordinate: the pair of the two step counts.  Sums are exact here;
\* the rounding of f32 addition is not followed.
F32(s, l) == [s |-> s, l |-> l]
F32Add(a, b) == F32(a.s + b.s, a.l + b.l)
F32Sub(a, b) == F32(a.s - b.s, a.l - b.l)

\* speed: 0.1
Speed == F32(1, 0)

Player_new(position, direction) ==
  [speed |-> Speed, position |-> position, direction |-> direction]

\* self.speed / (2 as f32).sqrt(), for a speed that is a multiple of 0.1.
linear_speed(self) == F32(0, self.speed.s)

\* The Southeast arm returns (x - linear_speed, y + linear_speed), as the
\* Northwest arm does.
Player_next_position(self) ==
  CASE self.direction = "North" ->
         <<self.position[1], F32Add(self.position[2], self.speed)>>
    [] self.direction = "South" ->
         <<self.position[1], F32Sub(self.position[2], self.speed)>>
    [] self.direction = "West" ->
         <<F32Sub(self.position[1], self.speed), self.position[2]>>
    [] self.direction = "East" ->
         <<F32Add(self.position[1], self.speed), self.position[2]>>
    [] self.direction = "Northwest" ->
         <<F32Sub(self.position[1], linear_speed(self)),
           F32Add(self.position[2], linear_speed(self))>>
    [] self.direction = "Northeast" ->
         <<F32Add(self.position[1], linear_speed(self)),
           F32Add(self.position[2], linear_speed(self))>>
    [] self.direction = "Southwest" ->
         <<F32Sub(self.position[1], linear_speed(self)),
           F32Sub(self.position[2], linear_speed(self))>>
    [] self.direction = "Southeast" ->
         <<F32Sub(self.position[1], linear_speed(self)),
           F32Add(self.position[2], linear_speed(self))>>

set_position(self, position) ==
  [speed |-> self.speed, position |-> position, direction |-> self.direction]

set_next_position(self) ==
  [speed |-> self.speed, position |-> Player_next_position(self),
   direction |-> self.direction]

set_direction(self, direction) ==
  [speed |-> self.speed, position |-> self.position, direction |-> direction]

\* impl PartialEq for Player: the three fields compared.
Player_eq(self, other) ==
  /\ self.speed = other.speed
  /\ self.position = other.position
  /\ self.direction = other.direction

-----------------------------------------------------------------------------
(* model/world.rs *)

WorldImpl_new(stage_, players_, bombs_, blasts_) ==
  [stage |-> stage_, players |-> players_, bombs |-> bombs_, blasts |-> blasts_]

\* The match of is_wall_or_oob on the result of get_tile.
wall_or_err(r) ==
  CASE r.kind = "Ok" -> [panic |-> FALSE, val |-> is_wall(r.tile)]
    [] r.kind = "Err" -> [panic |-> FALSE, val |-> TRUE]
    [] r.kind = "panic" -> [panic |-> TRUE, val |-> TRUE]

is_wall_or_oob(self, position) == wall_or_err(get_tile(self.stage, position))

\* A vector of results as one result: a panic if any of them is one.
Collected(rs) ==
  [panic |-> \E i \in DOMAIN rs : rs[i].panic, val |-> [i \in DOMAIN rs |-> rs[i].val]]

\* The loop of flames_hit_wall over blast.next_positions().
hit_walls(self, positions) ==
  Collected([i \in 1 .. Len(positions) |-> is_wall_or_oob(self, positions[i])])

flames_hit_wall(self, blast_) == hit_walls(self, next_positions(blast_))

\* blast.tick(self.flames_hit_wall(blast)): the argument is computed first.
tick_with(blast_, hit_wall, checked) ==
  IF hit_wall.panic THEN [panic |-> TRUE, val |-> blast_]
  ELSE [panic |-> Blast_tick(blast_, hit_wall.val, checked).panic,
        val |-> Blast_tick(blast_, hit_wall.val, checked).blast]

tick_all_blasts(self, checked) ==
  Collected([i \in 1 .. Len(self.blasts) |->
               tick_with(self.blasts[i], flames_hit_wall(self, self.blasts[i]), checked)])

\* The result of a World operation: the new World, or a panic (the World the
\* call was made on is then all the caller has), and the positions the
\* operation passed to Stage.set_tile.
Done(w, calls) == [panic |-> FALSE, world |-> w, calls |-> calls]
Died(self, calls) == [panic |-> TRUE, world |-> self, calls |-> calls]
Returned(self, r) == IF r.panic THEN Died(self, r.calls) ELSE r

tick_bombs(self) ==
  Done(WorldImpl_new(copy(self.stage), self.players,
                     [i \in 1 .. Len(self.bombs) |-> Bomb_tick(self.bombs[i])],
                     self.blasts),
       <<>>)

\* The WorldImpl literal of tick_blasts around the ticked blasts.
with_blasts(self, new_blasts) ==
  IF new_blasts.panic THEN Died(self, <<>>)
  ELSE Done(WorldImpl_new(copy(self.stage), self.players, self.bombs, new_blasts.val),
            <<>>)

tick_blasts(self, checked) == with_blasts(self, tick_all_blasts(self, checked))

\* new_stage = new_stage.set_tile(point, Tile::Ground) for each point in turn;
\* calls are the positions passed so far.
set_ground(new_stage, points, calls) ==
  LET after[k \in 0 .. Len(points)] ==
        IF k = 0 THEN [panic |-> FALSE, stage |-> new_stage, calls |-> calls]
        ELSE IF after[k - 1].panic THEN after[k - 1]
        ELSE [panic |-> set_tile(after[k - 1].stage, points[k], "Ground").panic,
              stage |-> set_tile(after[k - 1].stage, points[k], "Ground").stage,
              calls |-> Append(after[k - 1].calls, points[k])]
  IN  after[Len(points)]

\* The points of the four `if !x_free { set_tile }` statements, in order.
blocked_points(center, up_free, down_free, left_free, right_free) ==
  (IF ~up_free THEN <<<<center[1], center[2] + 1>>>> ELSE <<>>)
  \o (IF ~down_free THEN <<<<center[1], center[2] - 1>>>> ELSE <<>>)
  \o (IF ~left_free THEN <<<<center[1] - 1, center[2]>>>> ELSE <<>>)
  \o (IF ~right_free THEN <<<<center[1] + 1, center[2]>>>> ELSE <<>>)

\* The end of a detonation: new_stage replaced, the new Blast pushed.
detonated(acc, set, new_blast) ==
  IF set.panic THEN [acc EXCEPT !.panic = TRUE, !.calls = set.calls]
  ELSE [acc EXCEPT !.stage = set.stage, !.calls = set.calls,
                   !.blasts = Append(acc.blasts, new_blast)]

\* The detonation branch of check_bombs, given the four is_wall_or_oob results.
detonate(acc, bomb_, up, down, left, right) ==
  IF up.panic \/ down.panic \/ left.panic \/ right.panic
  THEN [acc EXCEPT !.panic = TRUE]
  ELSE detonated(acc,
         set_ground(acc.stage,
                    blocked_points(bomb_.position, ~up.val, ~down.val, ~left.val,
                                   ~right.val),
                    acc.calls),
         BlastImpl_new(bomb_.position, bomb_.range, ~up.val, ~down.val, ~left.val,
                       ~right.val))

\* One pass of check_bombs' loop body; acc holds new_stage, new_bombs,
\* new_blasts and the set_tile calls made so far.  is_wall_or_oob reads
\* self.stage, not new_stage.
check_bomb(self, acc, bomb_) ==
  IF acc.panic THEN acc
  ELSE IF bomb_.lifetime = 0
  THEN detonate(acc, bomb_,
         is_wall_or_oob(self, <<bomb_.position[1], bomb_.position[2] + 1>>),
         is_wall_or_oob(self, <<bomb_.position[1], bomb_.position[2] - 1>>),
         is_wall_or_oob(self, <<bomb_.position[1] - 1, bomb_.position[2]>>),
         is_wall_or_oob(self, <<bomb_.position[1] + 1, bomb_.position[2]>>))
  ELSE [acc EXCEPT !.bombs = Append(acc.bombs, bomb_)]

\* The WorldImpl literal that check_bombs returns.
checked_world(self, r) ==
  IF r.panic THEN Died(self, r.calls)
  ELSE Done(WorldImpl_new(r.stage, self.players, r.bombs, r.blasts), r.calls)

\* new_blasts starts empty and is all the new World gets: self.blasts is
\* not carried over.
check_bombs(self) ==
  LET acc[i \in 0 .. Len(self.bombs)] ==
        IF i = 0
        THEN [panic |-> FALSE, stage |-> copy(self.stage), bombs |-> <<>>,
              blasts |-> <<>>, calls |-> <<>>]
        ELSE check_bomb(self, acc[i - 1], self.bombs[i])
  IN  checked_world(self, acc[Len(self.bombs)])

\* The closure of move_player's map.
moved(p, player_, direction) ==
  IF Player_eq(p, player_) THEN set_next_position(set_direction(p, direction)) ELSE p

move_player(self, player_, direction) ==
  Done(WorldImpl_new(self.stage,
                     [i \in 1 .. Len(self.players) |->
                        moved(self.players[i], player_, direction)],
                     self.bombs, self.blasts),
       <<>>)

\* A call made on the result of the call before it.
Then_check_bombs(r) == IF r.panic THEN r ELSE check_bombs(r.world)

\* tick_bombs().tick_blasts().check_bombs()
World_tick(self, checked) ==
  Returned(self, Then_check_bombs(tick_blasts(tick_bombs(self).world, checked)))

Then_tick(r, checked) == IF r.panic THEN r ELSE World_tick(r.world, checked)

\* update that ticks once however large dt is.
update_once(self, dt, checked) ==
  IF dt <= 0 THEN Done(self, <<>>) ELSE World_tick(self, checked)

\* for i in 0..dt: the loop body runs dt times (not at all for dt <= 0).  The
\* calls recorded are those of the last tick.
update(self, dt, checked) ==
  LET new_world[i \in 0 .. dt] ==
        IF i = 0 THEN Done(self, <<>>) ELSE Then_tick(new_world[i - 1], checked)
  IN  IF dt <= 0 THEN Done(self, <<>>) ELSE Returned(self, new_world[dt])

-----------------------------------------------------------------------------
(* The values the specifications start from *)

\* The cells <<x, y>> of a stage whose array has the given shape (rows, columns).
Cells(shape) == {<<x, y>> : x \in 0 .. shape[2] - 1, y \in 0 .. shape[1] - 1}

\* Stages of the given shape with at most n wall tiles.
StagesWithWalls(shape, n) ==
  LET walled == {S \in SUBSET Indices(shape) : Cardinality(S) <= n}
      walls == UNION {[S -> {"SoftWall", "HardWall"}] : S \in walled}
  IN  {StageImpl_new([shape |-> shape,
                      cells |-> [ix \in Indices(shape) |->
                                   IF ix \in DOMAIN w THEN w[ix] ELSE "Ground"]]) :
         w \in walls}

\* Every stage of the given shape.
AllStages(shape) ==
  {StageImpl_new([shape |-> shape, cells |-> c]) : c \in [Indices(shape) -> Tile]}

WorldShapes == {<<3, 3>>, <<3, 5>>}
StageShapes == {<<2, 2>>, <<2, 3>>, <<2, 1>>}
Probes == (-1 .. 3) \X (-1 .. 3)
Centers == {<<5, 4>>}

\* Bombs some ticks before detonation, inside the stage.
InitBombs(shape) ==
  [position : Cells(shape), lifetime : 1 .. MaxLifetime, piercing : BOOLEAN,
   range : 0 .. MaxRange]

\* The position a player starts from.
Origin == <<F32(0, 0), F32(0, 0)>>

\* A World without players, or with one.
InitPlayers == {<<>>, <<Player_new(Origin, "North")>>}

InitWorlds ==
  UNION {{WorldImpl_new(st, ps, bs, <<>>) :
            st \in StagesWithWalls(shape, MaxWalls),
            ps \in InitPlayers,
            bs \in UNION {[1 .. n -> InitBombs(shape)] : n \in 0 .. MaxBombs}} :
         shape \in WorldShapes}

\* Flames as Blast::new builds them (start = end), the diagonal directions
\* that FlameImpl's fields admit included.
InitFlames ==
  {FlameImpl_new(p, p, d, r) : p \in Centers, d \in Direction, r \in 0 .. MaxRange}

\* Bombs as BombImpl::new builds them, and bombs a few ticks before detonation.
BombsHeld ==
  {BombImpl_new(p, piercing, r) : p \in Centers, piercing \in BOOLEAN, r \in 0 .. MaxRange}
  \cup [position : Centers, lifetime : 1 .. MaxLifetime, piercing : BOOLEAN,
        range : 0 .. MaxRange]

\* The players of the Worlds move_player is called on, and a player who is in
\* none of them.
MovePlayers == {Player_new(Origin, "North"), Player_new(Origin, "East")}
Stranger == Player_new(Origin, "West")

\* Worlds with players, a wall, and with or without a bomb and a blast.
MoveWorlds ==
  {WorldImpl_new(st, ps, bs, bl) :
     st \in StagesWithWalls(<<3, 3>>, MaxWalls) \ StagesWithWalls(<<3, 3>>, 0),
     ps \in UNION {[1 .. n -> MovePlayers] : n \in 0 .. MaxPlayers},
     bs \in {<<>>, <<BombImpl_new(<<1, 1>>, FALSE, 1)>>},
     bl \in {<<>>, <<BlastImpl_new(<<1, 1>>, 1, TRUE, FALSE, TRUE, FALSE)>>}}

IdleWorld == WorldImpl_new(StageImpl_new([shape |-> <<0, 0>>, cells |-> <<>>]),
                           <<>>, <<>>, <<>>)
IdleStage == StageImpl_new([shape |-> <<0, 0>>, cells |-> <<>>])
IdleBlast == BlastImpl_new(<<0, 0>>, 0, FALSE, FALSE, FALSE, FALSE)
IdleBuilt == [center |-> <<0, 0>>, range |-> 0, free |-> <<FALSE, FALSE, FALSE, FALSE>>]

IdleFlame == FlameImpl_new(<<0, 0>>, <<0, 0>>, "North", 0)
IdleBomb == BombImpl_new(<<0, 0>>, FALSE, 0)
IdlePlayer == Player_new(Origin, "North")

\* The variables of a trait no call is made on.
NoWorld == world = IdleWorld /\ prev = IdleWorld /\ set_tile_calls = <<>>
NoStage == stage = IdleStage /\ old_stage = IdleStage
NoBlast == blast = IdleBlast /\ old_blast = IdleBlast /\ free_run = TRUE
NoFlame == flame = IdleFlame /\ old_flame = IdleFlame
NoBomb == bomb = IdleBomb /\ old_bomb = IdleBomb
NoPlayer == player = IdlePlayer /\ old_player = IdlePlayer

Call(op, args, result) == [op |-> op, args |-> args, result |-> result]

-----------------------------------------------------------------------------
(* World: a caller holding a World and calling the World trait on it *)

Init ==
  /\ world \in InitWorlds
  /\ prev = world
  /\ set_tile_calls = <<>>
  /\ last_call = Call("new", <<>>, "World")
  /\ panicked = FALSE
  /\ stage = IdleStage /\ old_stage = IdleStage
  /\ built = IdleBuilt /\ blast = IdleBlast /\ old_blast = IdleBlast
  /\ ticks = 0 /\ free_run = TRUE
  /\ NoFlame /\ NoBomb /\ NoPlayer

\* No bomb is followed more than MaxOverdue ticks below lifetime 0.
Followed(n) ==
  \A i \in 1 .. Len(world.bombs) : world.bombs[i].lifetime - n >= -MaxOverdue

WorldCall(op, args, r) ==
  /\ world' = r.world
  /\ prev' = world
  /\ set_tile_calls' = r.calls
  /\ panicked' = r.panic
  /\ last_call' = Call(op, args, IF r.panic THEN "panic" ELSE "World")
  /\ UNCHANGED <<stage, old_stage, built, blast, old_blast, ticks, free_run>>
  /\ UNCHANGED <<flame, old_flame, bomb, old_bomb, player, old_player>>

Tick ==
  /\ ~panicked
  /\ Followed(1)
  /\ \E checked \in BOOLEAN : WorldCall("tick", <<>>, World_tick(world, checked))

Update ==
  /\ ~panicked
  /\ \E dt \in 0 .. MaxDt, checked \in BOOLEAN :
       /\ Followed(dt)
       /\ WorldCall("update", <<dt>>, update(world, dt, checked))

TickBombs ==
  /\ ~panicked
  /\ Followed(1)
  /\ WorldCall("tick_bombs", <<>>, tick_bombs(world))

TickBlasts ==
  /\ ~panicked
  /\ \E checked \in BOOLEAN : WorldCall("tick_blasts", <<>>, tick_blasts(world, checked))

CheckBombs ==
  /\ ~panicked
  /\ WorldCall("check_bombs", <<>>, check_bombs(world))

Next == Tick \/ Update \/ TickBombs \/ TickBlasts \/ CheckBombs

Spec == Init /\ [][Next]_vars

-----------------------------------------------------------------------------
(* Stage: a caller holding a Stage and calling the Stage trait on it *)

StageInit ==
  /\ stage \in UNION {AllStages(shape) : shape \in StageShapes}
  /\ old_stage = stage
  /\ last_call = Call("new", <<>>, "Stage")
  /\ panicked = FALSE
  /\ world = IdleWorld /\ prev = IdleWorld /\ set_tile_calls = <<>>
  /\ built = IdleBuilt /\ blast = IdleBlast /\ old_blast = IdleBlast
  /\ ticks = 0 /\ free_run = TRUE
  /\ NoFlame /\ NoBomb /\ NoPlayer

StageIdle ==
  UNCHANGED <<world, prev, set_tile_calls, built, blast, old_blast, ticks, free_run,
              flame, old_flame, bomb, old_bomb, player, old_player>>

GetTile ==
  /\ ~panicked
  /\ \E position \in Probes :
       LET r == get_tile(stage, position)
       IN  /\ last_call' = Call("get_tile", <<position>>, r)
           /\ panicked' = (r.kind = "panic")
           /\ old_stage' = stage
           /\ UNCHANGED stage
  /\ StageIdle

SetTile ==
  /\ ~panicked
  /\ \E position \in Probes, tile \in Tile :
       LET r == set_tile(stage, position, tile)
       IN  /\ last_call' = Call("set_tile", <<position, tile>>,
                                IF r.panic THEN "panic" ELSE "Stage")
           /\ panicked' = r.panic
           /\ old_stage' = stage
           /\ stage' = r.stage
  /\ StageIdle

StageNext == GetTile \/ SetTile

StageSpec == StageInit /\ [][StageNext]_vars

-----------------------------------------------------------------------------
(* Blast: a caller holding a Blast built by Blast::new and ticking it *)

BlastInit ==
  /\ \E center \in Centers, range \in 0 .. MaxRange,
        up_free \in BOOLEAN, down_free \in BOOLEAN,
        left_free \in BOOLEAN, right_free \in BOOLEAN :
       /\ blast = BlastImpl_new(center, range, up_free, down_free, left_free, right_free)
       /\ built = [center |-> center, range |-> range,
                   free |-> <<up_free, down_free, left_free, right_free>>]
  /\ last_call = Call("new", <<>>, "Blast")
  /\ old_blast = blast
  /\ ticks = 0 /\ free_run = TRUE
  /\ panicked = FALSE
  /\ world = IdleWorld /\ prev = IdleWorld /\ set_tile_calls = <<>>
  /\ stage = IdleStage /\ old_stage = IdleStage
  /\ NoFlame /\ NoBomb /\ NoPlayer

BlastTick ==
  /\ ~panicked
  /\ ticks < MaxBlastTicks
  /\ \E hit_wall \in [1 .. Len(blast.flames) -> BOOLEAN], checked \in BOOLEAN :
       LET r == Blast_tick(blast, hit_wall, checked)
       IN  /\ blast' = r.blast
           /\ old_blast' = blast
           /\ panicked' = r.panic
           /\ ticks' = ticks + 1
           /\ free_run' = (free_run /\ \A i \in 1 .. Len(hit_wall) : ~hit_wall[i])
           /\ last_call' = Call("tick", <<hit_wall>>, IF r.panic THEN "panic" ELSE "Blast")
  /\ UNCHANGED <<world, prev, set_tile_calls, stage, old_stage, built>>
  /\ UNCHANGED <<flame, old_flame, bomb, old_bomb, player, old_player>>

BlastNext == BlastTick

BlastSpec == BlastInit /\ [][BlastNext]_vars

-----------------------------------------------------------------------------
(* Flame: a caller holding a Flame and ticking it *)

FlameInit ==
  /\ flame \in InitFlames
  /\ old_flame = flame
  /\ last_call = Call("new", <<>>, "Flame")
  /\ ticks = 0
  /\ panicked = FALSE
  /\ built = IdleBuilt
  /\ NoWorld /\ NoStage /\ NoBlast /\ NoBomb /\ NoPlayer

FlameTick ==
  /\ ticks < MaxFlameTicks
  /\ \E hit_wall \in BOOLEAN :
       /\ flame' = Flame_tick(flame, hit_wall)
       /\ last_call' = Call("tick", <<hit_wall>>, "Flame")
  /\ old_flame' = flame
  /\ ticks' = ticks + 1
  /\ UNCHANGED <<world, prev, set_tile_calls, stage, old_stage, built, blast, old_blast,
                 free_run, panicked, bomb, old_bomb, player, old_player>>

FlameNext == FlameTick

FlameSpec == FlameInit /\ [][FlameNext]_vars

-----------------------------------------------------------------------------
(* Bomb: a caller holding a Bomb, ticking it and asking can_detonate *)

BombInit ==
  /\ bomb \in BombsHeld
  /\ old_bomb = bomb
  /\ built = bomb
  /\ last_call = Call("new", <<>>, "Bomb")
  /\ ticks = 0
  /\ panicked = FALSE
  /\ NoWorld /\ NoStage /\ NoBlast /\ NoFlame /\ NoPlayer

BombIdle ==
  UNCHANGED <<world, prev, set_tile_calls, stage, old_stage, built, blast, old_blast,
              free_run, panicked, flame, old_flame, player, old_player>>

\* No bomb is followed more than MaxOverdue ticks below lifetime 0.
BombTick ==
  /\ bomb.lifetime - 1 >= -MaxOverdue
  /\ bomb' = Bomb_tick(bomb)
  /\ old_bomb' = bomb
  /\ ticks' = ticks + 1
  /\ last_call' = Call("tick", <<>>, "Bomb")
  /\ BombIdle

CanDetonate ==
  /\ last_call' = Call("can_detonate", <<>>, can_detonate(bomb))
  /\ old_bomb' = bomb
  /\ UNCHANGED <<bomb, ticks>>
  /\ BombIdle

BombNext == BombTick \/ CanDetonate

BombSpec == BombInit /\ [][BombNext]_vars

-----------------------------------------------------------------------------
(* Player: a caller holding a Player and calling its methods *)

PlayerInit ==
  /\ \E direction \in Direction : player = Player_new(Origin, direction)
  /\ old_player = player
  /\ last_call = Call("new", <<>>, "Player")
  /\ ticks = 0
  /\ panicked = FALSE
  /\ built = IdleBuilt
  /\ NoWorld /\ NoStage /\ NoBlast /\ NoFlame /\ NoBomb

PlayerIdle ==
  UNCHANGED <<world, prev, set_tile_calls, stage, old_stage, built, blast, old_blast,
              free_run, panicked, flame, old_flame, bomb, old_bomb>>

NextPosition ==
  /\ last_call' = Call("next_position", <<>>, Player_next_position(player))
  /\ old_player' = player
  /\ UNCHANGED <<player, ticks>>
  /\ PlayerIdle

\* A call that returns a new Player, which the caller goes on with.
PlayerCall(op, args, new_player) ==
  /\ ticks < MaxMoves
  /\ player' = new_player
  /\ old_player' = player
  /\ ticks' = ticks + 1
  /\ last_call' = Call(op, args, "Player")
  /\ PlayerIdle

SetNextPosition == PlayerCall("set_next_position", <<>>, set_next_position(player))

SetDirection ==
  \E direction \in Direction :
    PlayerCall("set_direction", <<direction>>, set_direction(player, direction))

SetPosition == PlayerCall("set_position", <<Origin>>, set_position(player, Origin))

PlayerNext == NextPosition \/ SetNextPosition \/ SetDirection \/ SetPosition

PlayerSpec == PlayerInit /\ [][PlayerNext]_vars

-----------------------------------------------------------------------------
(* World.move_player: a caller holding a World with players and moving them *)

MoveInit ==
  /\ world \in MoveWorlds
  /\ prev = world
  /\ set_tile_calls = <<>>
  /\ last_call = Call("new", <<>>, "World")
  /\ ticks = 0
  /\ panicked = FALSE
  /\ built = IdleBuilt
  /\ NoStage /\ NoBlast /\ NoFlame /\ NoBomb /\ NoPlayer

\* The player passed is one of the World's, or one who is not in it.
MovePlayer ==
  /\ ticks < MaxMoves
  /\ \E player_ \in {world.players[i] : i \in 1 .. Len(world.players)} \cup {Stranger},
        direction \in Direction :
       /\ world' = move_player(world, player_, direction).world
       /\ last_call' = Call("move_player", <<player_, direction>>, "World")
  /\ prev' = world
  /\ ticks' = ticks + 1
  /\ UNCHANGED <<set_tile_calls, stage, old_stage, built, blast, old_blast, free_run,
                 panicked, flame, old_flame, bomb, old_bomb, player, old_player>>

MoveNext == MovePlayer

MoveSpec == MoveInit /\ [][MoveNext]_vars

-----------------------------------------------------------------------------
(* Vocabulary of the properties *)

\* Width (columns, x) and height (rows, y) of a stage, and its bounds
\* [0, width) x [0, height).
Width(stg) == stg.tiles.shape[2]
Height(stg) == stg.tiles.shape[1]
InBounds(stg, position) ==
  /\ 0 <= position[1] /\ position[1] < Width(stg)
  /\ 0 <= position[2] /\ position[2] < Height(stg)
\* The tile stored at an in-bounds position.
TileAt(stg, position) == stg.tiles.cells[<<position[2], position[1]>>]
AllCells(stg) == Cells(stg.tiles.shape)

-----------------------------------------------------------------------------
(* Stage *)

\* C8: get_tile(pos) returns Ok(the tile stored at pos) for every pos inside
\* [0, W) x [0, H), and the out-of-bounds error value, without aborting, for
\* every other pos, negative coordinates included.
C8_GetTileChecksBounds ==
  last_call.op = "get_tile" =>
    LET position == last_call.args[1]
    IN  IF InBounds(old_stage, position)
        THEN last_call.result = Ok(TileAt(old_stage, position))
        ELSE last_call.result = Err

\* C9: for an in-bounds position p and a tile t, set_tile(p, t).get_tile(p) is
\* Ok(t), get_tile of every other in-bounds q on the new Stage is the tile the
\* original Stage holds at q, and the original Stage keeps its tiles (the
\* Stage the call was made on is a value the call cannot change).
C9_SetThenGet ==
  (last_call.op = "set_tile" /\ InBounds(old_stage, last_call.args[1])) =>
    LET p == last_call.args[1]
        t == last_call.args[2]
    IN  /\ ~panicked
        /\ get_tile(stage, p) = Ok(t)
        /\ \A q \in AllCells(old_stage) \ {p} :
             get_tile(stage, q) = Ok(TileAt(old_stage, q))

-----------------------------------------------------------------------------
(* Blast *)

AllSpread(b) == \A i \in 1 .. Len(b.flames) : b.flames[i].spread_range = 0
AllFree == built.free = <<TRUE, TRUE, TRUE, TRUE>>

\* C3: a Blast built with all four flags true and range R (R >= 1 here, so
\* that a tick is made) has exactly 4 Flames; after R ticks with every hit_wall
\* flag false every Flame has spread_range 0 and spread_done is true; the
\* lifetime is 60 after each of those R ticks and 60 - k after k more.
C3_SpreadsThenExpires ==
  (last_call.op \in {"new", "tick"} /\ AllFree /\ free_run /\ built.range >= 1
     /\ ~panicked) =>
    /\ Len(blast.flames) = 4
    /\ ticks = built.range => (AllSpread(blast) /\ blast.spread_done)
    /\ ticks <= built.range => blast.lifetime = BlastLifetime
    /\ ticks > built.range => blast.lifetime = BlastLifetime - (ticks - built.range)

\* C4: Blast.tick returns a Blast whose spread_done is true iff the previous
\* spread_done was true or every Flame of the previous Blast had
\* spread_range 0 (stated for a Blast that has a Flame).
C4_SpreadDoneStored ==
  (last_call.op = "tick" /\ ~panicked /\ Len(old_blast.flames) > 0) =>
    (blast.spread_done <=> (old_blast.spread_done \/ AllSpread(old_blast)))

-----------------------------------------------------------------------------
(* World *)

\* The bombs of the World the last call was made on whose lifetime is n.
BombsAt(n) == SelectSeq(prev.bombs, LAMBDA b : b.lifetime = n)
\* The bombs that call finds at lifetime 0 in check_bombs: tick ages them first.
Due == IF last_call.op = "tick" THEN BombsAt(1) ELSE BombsAt(0)
\* The Blast made for the k-th of them: the new blasts are the last ones.
BlastOf(k) == world.blasts[Len(world.blasts) - Len(Due) + k]

Cardinal == {"North", "South", "West", "East"}
Neighbour(center, d) ==
  CASE d = "North" -> <<center[1], center[2] + 1>>
    [] d = "South" -> <<center[1], center[2] - 1>>
    [] d = "West" -> <<center[1] - 1, center[2]>>
    [] d = "East" -> <<center[1] + 1, center[2]>>
WallAt(stg, position) == InBounds(stg, position) /\ is_wall(TileAt(stg, position))
GroundAt(stg, position) == InBounds(stg, position) /\ ~is_wall(TileAt(stg, position))
FlamesTowards(b, d) == {i \in 1 .. Len(b.flames) : b.flames[i].direction = d}

\* C1: a tick returns a World in which every bomb whose lifetime was not 1 is
\* still in the bomb collection, one tick older, and every bomb whose lifetime
\* was 1 (it reaches 0 in this tick) is gone, with exactly one new Blast
\* centred at its position: no detonation earlier, later or twice.
C1_DetonatesAtZero ==
  last_call.op = "tick" =>
    /\ ~panicked
    /\ world.bombs =
         SelectSeq([i \in 1 .. Len(prev.bombs) |-> Bomb_tick(prev.bombs[i])],
                   LAMBDA b : b.lifetime # 0)
    /\ Len(world.blasts) >= Len(Due)
    /\ Len(world.blasts) <= Len(prev.blasts) + Len(Due)
    /\ \A k \in 1 .. Len(Due) : BlastOf(k).center = Due[k].position

\* C2: no World operation removes a Blast: after tick each Blast that was
\* there is still there, advanced by Blast.tick, and after any operation the
\* blast count has not decreased.
C2_BlastsKept ==
  (last_call.op \in {"tick", "update", "tick_bombs", "tick_blasts", "check_bombs"}
     /\ ~panicked) =>
    /\ Len(world.blasts) >= Len(prev.blasts)
    /\ last_call.op = "tick" =>
         \A i \in 1 .. Len(prev.blasts) :
           world.blasts[i] = tick_all_blasts(prev, TRUE).val[i]

\* C6: when a bomb detonates next to an in-bounds wall, the resulting Stage
\* has Ground at every in-bounds wall neighbour, the resulting Blast has no
\* Flame towards it, and it has exactly one Flame (start = end = the
\* neighbour, spread_range = the bomb's range) towards every neighbour that
\* was in-bounds Ground.
C6_AdjacentWall ==
  (last_call.op \in {"tick", "check_bombs"} /\ ~panicked) =>
    \A k \in 1 .. Len(Due) :
      (\E d \in Cardinal : WallAt(prev.stage, Neighbour(Due[k].position, d))) =>
        \A d \in Cardinal :
          LET n == Neighbour(Due[k].position, d)
              towards == FlamesTowards(BlastOf(k), d)
          IN  /\ WallAt(prev.stage, n) =>
                   (TileAt(world.stage, n) = "Ground" /\ towards = {})
              /\ GroundAt(prev.stage, n) =>
                   /\ Cardinality(towards) = 1
                   /\ \A i \in towards :
                        /\ BlastOf(k).flames[i].start = n
                        /\ BlastOf(k).flames[i].end = n
                        /\ BlastOf(k).flames[i].spread_range = Due[k].range

\* C7: if the World holds one Bomb, of range 2 and lifetime 0, whose four
\* neighbours are in-bounds Ground, the next tick returns a World without
\* bombs, with exactly one more Blast, centred at the bomb's position with 4
\* Flames of spread_range 2 each, and with the same tiles.
C7_DetonationScenario ==
  (/\ last_call.op = "tick"
   /\ Len(prev.bombs) = 1
   /\ prev.bombs[1].range = 2 /\ prev.bombs[1].lifetime = 0
   /\ \A d \in Cardinal : GroundAt(prev.stage, Neighbour(prev.bombs[1].position, d))) =>
    /\ ~panicked
    /\ world.bombs = <<>>
    /\ Len(world.blasts) = Len(prev.blasts) + 1
    /\ world.blasts[Len(world.blasts)].center = prev.bombs[1].position
    /\ Len(world.blasts[Len(world.blasts)].flames) = 4
    /\ \A i \in 1 .. 4 : world.blasts[Len(world.blasts)].flames[i].spread_range = 2
    /\ world.stage.tiles = prev.stage.tiles

\* C10: every position a World operation passes to Stage.set_tile lies inside
\* the stage bounds.
C10_SetTileInBounds ==
  \A i \in 1 .. Len(set_tile_calls) : InBounds(prev.stage, set_tile_calls[i])

\* The cells from start to end of a Flame.
Between(a, b) == IF a <= b THEN a .. b ELSE b .. a
Segment(f) == Between(f.start[1], f.end[1]) \X Between(f.start[2], f.end[2])

\* C11: in tick_blasts the hit_wall flag passed for a Flame is true exactly
\* when the Flame's next_position() is a wall tile or outside the Stage bounds
\* (each Flame of the returned World is the Flame ticked with that flag), and
\* in every World every cell from start to end of every Flame is in bounds and
\* is not a wall tile of the Stage.
C11_HitWallIsBlocked ==
  /\ last_call.op = "tick_blasts" =>
       /\ ~panicked
       /\ \A i \in 1 .. Len(prev.blasts) :
            \A j \in 1 .. Len(prev.blasts[i].flames) :
              world.blasts[i].flames[j] =
                Flame_tick(prev.blasts[i].flames[j],
                           ~GroundAt(prev.stage,
                                     Flame_next_position(prev.blasts[i].flames[j])))
  /\ \A i \in 1 .. Len(world.blasts) :
       \A j \in 1 .. Len(world.blasts[i].flames) :
         \A cell \in Segment(world.blasts[i].flames[j]) : GroundAt(world.stage, cell)

\* C18: a tick that returns leaves every Blast it created as Blast::new made
\* it (spread_done false, lifetime 60, each Flame with start = end and
\* spread_range = the bomb's range), and holds every Blast made by an earlier
\* tick advanced once, each Flame ticked with the flag of the Stage as it was
\* before this tick's detonations.
C18_NewBlastsWait ==
  (last_call.op = "tick" /\ ~panicked) =>
    /\ Len(world.blasts) >= Len(Due)
    /\ \A k \in 1 .. Len(Due) :
         /\ ~BlastOf(k).spread_done
         /\ BlastOf(k).lifetime = BlastLifetime
         /\ \A j \in 1 .. Len(BlastOf(k).flames) :
              /\ BlastOf(k).flames[j].start = BlastOf(k).flames[j].end
              /\ BlastOf(k).flames[j].spread_range = Due[k].range
    /\ Len(world.blasts) >= Len(prev.blasts)
    /\ \A i \in 1 .. Len(prev.blasts) :
         \A j \in 1 .. Len(prev.blasts[i].flames) :
           world.blasts[i].flames[j] =
             Flame_tick(prev.blasts[i].flames[j],
                        ~GroundAt(prev.stage,
                                  Flame_next_position(prev.blasts[i].flames[j])))

\* n calls of tick in sequence, each on the World the call before returned.
Ticked(w, n, checked) ==
  LET after[i \in 0 .. n] ==
        IF i = 0 THEN Done(w, <<>>) ELSE Then_tick(after[i - 1], checked)
  IN  after[n]

\* C14: update(n), n >= 0, returns the World that n calls of tick in sequence
\* return (same stage, players, bombs and blasts), and panics when one of
\* those calls does; update(0) returns the World it was called on.
C14_UpdateIsTicks ==
  last_call.op = "update" =>
    /\ \E checked \in BOOLEAN :
         /\ panicked = Ticked(prev, last_call.args[1], checked).panic
         /\ ~panicked => world = Ticked(prev, last_call.args[1], checked).world
    /\ last_call.args[1] = 0 => (~panicked /\ world = prev)

\* C14, witness: update(n), n >= 2, on a World with a player and a bomb that
\* detonates in the last of the n ticks.
C14_Witness ==
  /\ last_call.op = "update" /\ last_call.args[1] >= 2 /\ ~panicked
  /\ Len(prev.players) > 0 /\ Len(prev.bombs) > 0
  /\ Len(world.blasts) > 0 /\ Len(world.blasts[1].flames) > 0

-----------------------------------------------------------------------------
(* Flame *)

\* C12: Flame.tick(hit_wall) of a cardinal Flame keeps start and direction; if
\* hit_wall it returns spread_range 0 and the same end, whatever the range;
\* else if spread_range is 0 it returns the Flame unchanged; else end is one
\* cell further in the direction and spread_range is one less.  A Flame with
\* spread_range 0 keeps its end and spread_range 0 under any tick.
C12_FlameTick ==
  (last_call.op = "tick" /\ old_flame.direction \in Cardinal) =>
    /\ flame.start = old_flame.start
    /\ flame.direction = old_flame.direction
    /\ IF last_call.args[1]
       THEN flame.spread_range = 0 /\ flame.end = old_flame.end
       ELSE IF old_flame.spread_range = 0
       THEN flame = old_flame
       ELSE /\ flame.end = Neighbour(old_flame.end, old_flame.direction)
            /\ flame.spread_range = old_flame.spread_range - 1
    /\ old_flame.spread_range = 0 =>
         (flame.end = old_flame.end /\ flame.spread_range = 0)

\* C12, witness: a Flame that has spread and still has range left is ticked
\* with hit_wall true and freezes where it is.
C12_Witness ==
  /\ last_call.op = "tick" /\ last_call.args[1]
  /\ old_flame.direction \in Cardinal
  /\ old_flame.spread_range > 0
  /\ old_flame.end # old_flame.start
  /\ flame.spread_range = 0 /\ flame.end = old_flame.end

-----------------------------------------------------------------------------
(* Blast::new *)

\* The directions of the true flags of the Blast::new call, in the order up,
\* down, left, right.
Arms ==
  (IF built.free[1] THEN <<"North">> ELSE <<>>)
  \o (IF built.free[2] THEN <<"South">> ELSE <<>>)
  \o (IF built.free[3] THEN <<"West">> ELSE <<>>)
  \o (IF built.free[4] THEN <<"East">> ELSE <<>>)

\* C13: Blast::new makes exactly one Flame for each true flag (North for up,
\* South for down, West for left, East for right) and none for a false flag,
\* with start = end = the cell one step from the center and spread_range =
\* range; under Blast.tick the number, the directions and the starts of the
\* Flames stay as they are.
C13_FlamePerFlag ==
  /\ Len(blast.flames) = Len(Arms)
  /\ \A i \in 1 .. Len(blast.flames) :
       /\ blast.flames[i].direction = Arms[i]
       /\ blast.flames[i].start = Neighbour(built.center, Arms[i])
       /\ last_call.op = "new" =>
            /\ blast.flames[i].end = blast.flames[i].start
            /\ blast.flames[i].spread_range = built.range

\* C13, witness: a Blast built with up and right free, down and left
\* blocked, after ticks in which a Flame has spread.
C13_Witness ==
  /\ last_call.op = "tick" /\ ticks >= 2
  /\ built.free = <<TRUE, FALSE, FALSE, TRUE>>
  /\ Len(blast.flames) = 2
  /\ blast.flames[1].end # blast.flames[1].start

\* Cells between two positions on one line.
Distance(a, b) ==
  (IF a[1] >= b[1] THEN a[1] - b[1] ELSE b[1] - a[1])
  + (IF a[2] >= b[2] THEN a[2] - b[2] ELSE b[2] - a[2])

\* C16: every Flame of a Blast of range R has its end at most R cells from
\* the center after any number of ticks (stated for R >= 1 and at least one
\* tick).
C16_ArmWithinRange ==
  (last_call.op = "tick" /\ built.range >= 1) =>
    \A i \in 1 .. Len(blast.flames) :
      Distance(blast.flames[i].end, blast.center) <= built.range

-----------------------------------------------------------------------------
(* Bomb *)

\* C17: a Bomb created with lifetime L >= 1 has can_detonate() true after
\* exactly L calls of tick and false after any other number of them; tick
\* takes exactly 1 from the lifetime, below 0 too, and keeps position,
\* piercing and range.
C17_BombFuse ==
  /\ bomb.position = built.position
  /\ bomb.piercing = built.piercing
  /\ bomb.range = built.range
  /\ bomb.lifetime = built.lifetime - ticks
  /\ last_call.op = "tick" => bomb.lifetime = old_bomb.lifetime - 1
  /\ last_call.op = "can_detonate" => (last_call.result <=> ticks = built.lifetime)

\* C17, witness: can_detonate() answers true on a Bomb made by BombImpl::new
\* and ticked 300 times.
C17_Witness ==
  /\ last_call.op = "can_detonate" /\ last_call.result = TRUE
  /\ built.lifetime = BombLifetime
  /\ ticks = BombLifetime

-----------------------------------------------------------------------------
(* Player *)

\* The step of a player of the given speed in a compass direction: north is
\* +y, south -y, east +x, west -x, and a diagonal is speed / sqrt(2) on both
\* axes.
Compass(speed, d) ==
  LET zero == F32(0, 0)
      straight == speed
      diagonal == F32(0, speed.s)
  IN  CASE d = "North" -> <<zero, straight>>
        [] d = "South" -> <<zero, F32Sub(zero, straight)>>
        [] d = "East" -> <<straight, zero>>
        [] d = "West" -> <<F32Sub(zero, straight), zero>>
        [] d = "Northeast" -> <<diagonal, diagonal>>
        [] d = "Northwest" -> <<F32Sub(zero, diagonal), diagonal>>
        [] d = "Southwest" -> <<F32Sub(zero, diagonal), F32Sub(zero, diagonal)>>
        [] d = "Southeast" -> <<diagonal, F32Sub(zero, diagonal)>>
Advanced(position, step) ==
  <<F32Add(position[1], step[1]), F32Add(position[2], step[2])>>

\* C19: next_position is the position advanced by the compass step of the
\* player's direction, for all 8 directions, and it is the next position of
\* the player facing no other direction.
C19_CompassStep ==
  last_call.op = "next_position" =>
    /\ last_call.result =
         Advanced(old_player.position, Compass(old_player.speed, old_player.direction))
    /\ \A d \in Direction \ {old_player.direction} :
         Player_next_position(set_direction(old_player, d)) # last_call.result

\* C15: move_player(player, direction) returns a World with the same Stage,
\* bombs and blasts and as many Players in the same order; each Player equal
\* to `player` has direction = `direction` and its position advanced by the
\* compass step of that direction, and every other Player is as it was.
C15_MovePlayerFrame ==
  last_call.op = "move_player" =>
    LET player_ == last_call.args[1]
        direction == last_call.args[2]
    IN  /\ world.stage = prev.stage
        /\ world.bombs = prev.bombs
        /\ world.blasts = prev.blasts
        /\ Len(world.players) = Len(prev.players)
        /\ \A i \in 1 .. Len(prev.players) :
             IF prev.players[i] = player_
             THEN world.players[i] =
                    [speed |-> player_.speed,
                     position |-> Advanced(player_.position,
                                           Compass(player_.speed, direction)),
                     direction |-> direction]
             ELSE world.players[i] = prev.players[i]

-----------------------------------------------------------------------------
(* World: the Stage *)

\* The cells whose tile the last World call changed.
Changed == {cell \in AllCells(prev.stage) : TileAt(world.stage, cell) # TileAt(prev.stage, cell)}

====
